---- MODULE Spec2Model ----
(***************************************************************************)
(* Model of rust_bam_tools: src/src/subsample_bam.rs and src/src/lib.rs.   *)
(*                                                                         *)
(* Encodings used throughout:                                              *)
(*   Option<T>      the empty set is None, the singleton {x} is Some(x)    *)
(*   String/Vec<u8> a sequence of one-character strings                    *)
(*   virtual offset the pair <<coffset, uoffset>> of the two bit fields of  *)
(*                  the 64-bit value (coffset << 16) | uoffset, ordered as *)
(*                  the integer is ordered                                 *)
(*   file           [size, magic, blocks]: its length in bytes, the byte   *)
(*                  positions where the four bytes 1f 8b 08 04 stand (all  *)
(*                  other bytes read as 0), and its real BGZF blocks, each *)
(*                  [addr, recs]                                           *)
(***************************************************************************)
EXTENDS Integers, Sequences, FiniteSets, TLC

VARIABLES
    bam_file,        \* the source file
    barcode_lines,   \* the lines of the allow-list file
    to_replace,      \* Option<String>
    replacement,     \* Option<String>
    cores,           \* usize
    pc,              \* where subsample_bam_py / subsample_bam / bgzf_noffsets stands
    cell_barcodes,   \* HashSet<Vec<u8>> once loaded
    tmp_dir,         \* TRUE once tempdir() has created the scratch directory
    virtual_offsets, \* the planner's result: [status, offsets]
    wstate,          \* per chunk: queued, running, ok, err, panicked, skipped
    tmp_bams,        \* per chunk: Option<sequence of records in <i>.bam>
    out_bam,         \* Option<sequence of records in the destination file>
    merge_pos        \* <<index of the chunk file being copied, records copied of it>>

vars == <<bam_file, barcode_lines, to_replace, replacement, cores, pc,
          cell_barcodes, tmp_dir, virtual_offsets, wstate, tmp_bams, out_bam,
          merge_pos>>

(***************************************************************************)
(* Bounds of the model.                                                    *)
(***************************************************************************)
MaxBlocks == 3       \* data blocks of a source file
MaxRecs == 1         \* records in one data block
MaxCores == 4        \* largest parallelism tried (besides file size + 1)
MaxPlanBlocks == 4   \* blocks of a file handed to the planner alone
MaxPlanChunks == 6   \* largest num_chunks handed to the planner alone
MaxRawSize == 3      \* largest file without any block handed to the planner
MaxOverCores == 129  \* largest parallelism above the file size that is tried

(***************************************************************************)
(* Option, strings, small helpers.                                         *)
(***************************************************************************)
None == {}
Some(x) == {x}
is_some(o) == o # {}
unwrap(o) == CHOOSE x \in o : TRUE

Range(s) == {s[i] : i \in 1..Len(s)}
Min(S) == CHOOSE x \in S : \A y \in S : x <= y

RECURSIVE SumTo(_, _)
SumTo(s, n) == IF n = 0 THEN 0 ELSE s[n] + SumTo(s, n - 1)

RECURSIVE Flatten(_)
Flatten(ss) == IF ss = <<>> THEN <<>> ELSE Head(ss) \o Flatten(Tail(ss))

\* virtual offsets compare as the 64-bit integers they encode
VLess(a, b) == a[1] < b[1] \/ (a[1] = b[1] /\ a[2] < b[2])

(***************************************************************************)
(* Program constants.                                                      *)
(***************************************************************************)
ScanWindow == 65536     \* 1 << 16
BufLen == 131072        \* 2 << 16
MinBlockLen == 18
BgzfMagic == <<31, 139, 8, 4>>

(***************************************************************************)
(* The bytes of a file.                                                    *)
(***************************************************************************)
ByteAt(f, p) ==
    IF p < 0 \/ p >= f.size THEN 0
    ELSE IF \E m \in f.magic : p - m \in 0..3
         THEN BgzfMagic[p - (CHOOSE m \in f.magic : p - m \in 0..3) + 1]
         ELSE 0

\* buffer[i..] after seek(offset) and one read into a zeroed buffer of
\* BufLen bytes: its length and its first four bytes
BufferSlice(f, offset, i) ==
    [len |-> BufLen - i,
     b   |-> [k \in 1..4 |->
                IF i + k - 1 < BufLen THEN ByteAt(f, offset + i + k - 1) ELSE 0]]

is_valid_bgzf_block(block) ==
    IF block.len < MinBlockLen THEN FALSE
    ELSE IF (block.b[1] # 31) \/ (block.b[2] # 139) \/ (block.b[3] # 8) \/ (block.b[4] # 4)
         THEN FALSE
    ELSE TRUE

(***************************************************************************)
(* bgzf_noffsets                                                           *)
(***************************************************************************)
vec_diff(input) == [k \in 1..(Len(input) - 1) |-> input[k + 1] - input[k]]

initial_offsets_of(bam_bytes, num_chunks) ==
    LET step_size == bam_bytes \div num_chunks
    IN  [n \in 1..(num_chunks - 1) |-> step_size * n]

num_bytes_nomin(initial_offsets) == ScanWindow

num_bytes_of(initial_offsets) ==
    IF Len(initial_offsets) > 1
    THEN LET diff == vec_diff(initial_offsets)
             m == CHOOSE x \in Range(diff) : \A y \in Range(diff) : y <= x
         IN  IF ScanWindow < m THEN ScanWindow ELSE m
    ELSE ScanWindow

\* the i of "for i in 0..num_bytes" at which the scan breaks, if any; only a
\* position holding the byte 31 can pass the check, so only those are tried
scan_offset(f, offset, num_bytes) ==
    LET tried == {p - offset : p \in {q \in f.magic : q >= offset}}
        hits  == {i \in tried : i < num_bytes
                                /\ is_valid_bgzf_block(BufferSlice(f, offset, i))}
    IN  IF hits = {} THEN None ELSE Some(offset + Min(hits))

\* lines 102-114: the offsets found, in the order of their candidates
adjusted_offsets_of(f, initial_offsets, num_bytes) ==
    LET found == SelectSeq([k \in 1..Len(initial_offsets) |->
                              scan_offset(f, initial_offsets[k], num_bytes)],
                           is_some)
    IN  [k \in 1..Len(found) |-> unwrap(found[k])]

\* (x as i64) << 16
Shift16(x) == <<x, 0>>

Ok(v) == [status |-> "ok", offsets |-> v]
Panic == [status |-> "panic", offsets |-> <<>>]

\* lines 115-136; adjusted_offsets is indexed from 0 in the source, adj from 1
final_offsets_of(adj, num_chunks) ==
    IF Len(adj) = 1 THEN Ok(<<<<None, None>>>>)
    ELSE IF Len(adj) < 2 THEN Panic                       \* adjusted_offsets[1]
    ELSE IF num_chunks - 2 >= 2 /\ num_chunks - 2 >= Len(adj)
         THEN Panic                                       \* adjusted_offsets[n]
    ELSE Ok(<<<<None, Some(Shift16(adj[2]))>>>>
            \o [k \in 1..(IF num_chunks - 3 > 0 THEN num_chunks - 3 ELSE 0) |->
                  <<Some(Shift16(adj[k + 1])), Some(Shift16(adj[k + 2]))>>]
            \o <<<<Some(Shift16(adj[Len(adj)])), None>>>>)

bgzf_noffsets(f, num_chunks) ==
    IF num_chunks = 1 THEN Ok(<<<<None, None>>>>)
    ELSE IF num_chunks = 0 THEN Panic                     \* bam_bytes / num_chunks
    ELSE LET initial_offsets == initial_offsets_of(f.size, num_chunks)
             num_bytes == num_bytes_of(initial_offsets)
             adj == adjusted_offsets_of(f, initial_offsets, num_bytes)
         IN  final_offsets_of(adj, num_chunks)

(***************************************************************************)
(* Records and their auxiliary field (the one named by bam_tag).           *)
(***************************************************************************)
AuxAbsent == [typ |-> "absent", val |-> <<>>]
AuxInt == [typ |-> "i", val |-> <<>>]
AuxString(s) == [typ |-> "Z", val |-> s]

get_record_tag(rec) ==
    IF rec.aux.typ = "Z" THEN Some(rec.aux.val) ELSE None

\* str::replace: every non-overlapping match, left to right; an empty
\* pattern matches at every character boundary
RECURSIVE str_replace(_, _, _)
str_replace(s, from, to) ==
    IF from = <<>>
    THEN IF s = <<>> THEN to ELSE to \o <<Head(s)>> \o str_replace(Tail(s), from, to)
    ELSE IF Len(s) < Len(from) THEN s
    ELSE IF SubSeq(s, 1, Len(from)) = from
         THEN to \o str_replace(SubSeq(s, Len(from) + 1, Len(s)), from, to)
    ELSE <<Head(s)>> \o str_replace(Tail(s), from, to)

\* Ok(()) with the record rewritten, or Err(BamAuxTagNotFound)
substitute_text_in_tag(rec, from, to) ==
    LET bc == get_record_tag(rec)
    IN  IF is_some(bc)
        THEN [ok |-> TRUE,
              rec |-> [rec EXCEPT !.aux = AuxString(str_replace(unwrap(bc), from, to))]]
        ELSE [ok |-> FALSE, rec |-> rec]

(***************************************************************************)
(* bam::Reader::iter_chunk(start, stop) of the alignment-file library:     *)
(* seek to start when given, then read records while tell() < stop.        *)
(***************************************************************************)
BlockAddrs(f) == {f.blocks[k].addr : k \in 1..Len(f.blocks)}

\* the records of the file in file order, each with its virtual offset
FileRecords(f) ==
    Flatten([k \in 1..Len(f.blocks) |->
               [j \in 1..Len(f.blocks[k].recs) |->
                  [voff |-> <<f.blocks[k].addr, j - 1>>, rec |-> f.blocks[k].recs[j]]]])

iter_chunk(f, start, stop) ==
    IF is_some(start) /\ is_some(stop) /\ ~VLess(unwrap(start), unwrap(stop))
    THEN [err |-> FALSE, recs |-> <<>>]
    ELSE IF is_some(start) /\ unwrap(start)[1] \notin BlockAddrs(f)
    THEN [err |-> TRUE, recs |-> <<>>]        \* no block decodes from there
    ELSE [err |-> FALSE,
          recs |-> SelectSeq(FileRecords(f),
                     LAMBDA r : /\ (is_some(start) => ~VLess(r.voff, unwrap(start)))
                                /\ (is_some(stop) => VLess(r.voff, unwrap(stop))))]

(***************************************************************************)
(* read_bam_slice                                                          *)
(***************************************************************************)
\* the body of the loop for one record: what is written, or a panic
slice_record(args, rec) ==
    LET tag == get_record_tag(rec)
        sub == is_some(args.to_replace) /\ is_some(tag)
    IN  IF sub /\ ~is_some(args.replacement)
        THEN [status |-> "panic", out |-> <<>>]           \* replacement.unwrap()
        ELSE LET res == IF sub
                        THEN substitute_text_in_tag(rec, unwrap(args.to_replace),
                                                    unwrap(args.replacement))
                        ELSE [ok |-> TRUE, rec |-> rec]
             IN  IF ~res.ok THEN [status |-> "panic", out |-> <<>>]  \* expect("Missing tag")
                 ELSE IF is_some(tag) /\ unwrap(tag) \in args.cell_barcodes
                      THEN [status |-> "ok", out |-> <<res.rec>>]
                      ELSE [status |-> "ok", out |-> <<>>]

RECURSIVE slice_records(_, _)
slice_records(args, recs) ==
    IF recs = <<>> THEN [status |-> "ok", out |-> <<>>]
    ELSE LET one == slice_record(args, Head(recs).rec)
         IN  IF one.status # "ok" THEN one
             ELSE LET rest == slice_records(args, Tail(recs))
                  IN  [status |-> rest.status, out |-> one.out \o rest.out]

\* Ok(path) with the chunk file's records, Err, or a panic; out is what the
\* chunk file holds when the function ends
read_bam_slice(f, args) ==
    LET it == iter_chunk(f, args.virtual_start, args.virtual_stop)
    IN  IF it.err THEN [status |-> "err", out |-> <<>>]   \* let mut rec = r?
        ELSE slice_records(args, it.recs)

SliceArgs(i) ==
    [cell_barcodes |-> cell_barcodes,
     i             |-> i,
     virtual_start |-> virtual_offsets.offsets[i + 1][1],
     virtual_stop  |-> virtual_offsets.offsets[i + 1][2],
     to_replace    |-> to_replace,
     replacement   |-> replacement]

(***************************************************************************)
(* Inputs.                                                                 *)
(***************************************************************************)
sAAAA == <<"A", "A", "A", "A">>
sAAAA_1 == <<"A", "A", "A", "A", "-", "1">>
sCCCC == <<"C", "C", "C", "C">>
sGGGG == <<"G", "G", "G", "G">>
sDash1 == <<"-", "1">>

TagMenu == <<AuxString(sAAAA_1), AuxString(sCCCC), AuxString(sAAAA), AuxAbsent,
             AuxString(sGGGG), AuxInt>>

Rec(id) == [id |-> id, aux |-> TagMenu[((id - 1) % Len(TagMenu)) + 1]]

DataBlockSizes == {100, 65536}
PlanBlockSizes == {28, 100, 65536}

\* nb data blocks of bs bytes holding nr records each, then the 28-byte
\* end-of-file block; fk > 0 puts the magic bytes 50 bytes into data block fk
BamFile(nb, bs, nr, fk) ==
    [size   |-> nb * bs + 28,
     magic  |-> {(k - 1) * bs : k \in 1..(nb + 1)}
                \cup (IF fk = 0 THEN {} ELSE {(fk - 1) * bs + 50}),
     blocks |-> [k \in 1..(nb + 1) |->
                   [addr |-> (k - 1) * bs,
                    recs |-> IF k > nb THEN <<>>
                             ELSE [j \in 1..nr |-> Rec((k - 1) * nr + j)]]]]

BamFiles ==
    {BamFile(nb, bs, nr, fk) :
        nb \in 1..MaxBlocks, bs \in DataBlockSizes, nr \in 1..MaxRecs, fk \in 0..1}

\* a file of blocks of the given sizes without records, for the planner
\* alone; fk > 0 puts the magic bytes 10 bytes into block fk
PlanFile(sizes, fk) ==
    [size   |-> SumTo(sizes, Len(sizes)),
     magic  |-> {SumTo(sizes, k - 1) : k \in 1..Len(sizes)}
                \cup (IF fk = 0 THEN {} ELSE {SumTo(sizes, fk - 1) + 10}),
     blocks |-> [k \in 1..Len(sizes) |-> [addr |-> SumTo(sizes, k - 1), recs |-> <<>>]]]

RawFile(n) == [size |-> n, magic |-> {}, blocks |-> <<>>]

PlanFiles ==
    {RawFile(n) : n \in 0..MaxRawSize}
    \cup UNION {{PlanFile(sizes, fk) : sizes \in [1..n -> PlanBlockSizes], fk \in 0..n} :
                  n \in 1..MaxPlanBlocks}

BarcodeLists == SUBSET {sAAAA, sCCCC, sAAAA_1}

\* no substitution, "-1" replaced by "", and a find without a replace
ReplaceConfigs == {<<None, None>>, <<Some(sDash1), Some(<<>>)>>, <<Some(sDash1), None>>}

Unplanned == [status |-> "none", offsets |-> <<>>]

(***************************************************************************)
(* subsample_bam_py and subsample_bam                                      *)
(***************************************************************************)
Terminal == {"done", "panicked", "exit1", "exit2"}

Init ==
    /\ bam_file \in BamFiles
    /\ barcode_lines \in BarcodeLists
    /\ \E cfg \in ReplaceConfigs : to_replace = cfg[1] /\ replacement = cfg[2]
    /\ cores \in (0..MaxCores) \cup {n \in {bam_file.size + 1} : n <= MaxOverCores}
    /\ pc = "load_barcodes"
    /\ cell_barcodes = {}
    /\ tmp_dir = FALSE
    /\ virtual_offsets = Unplanned
    /\ wstate = <<>>
    /\ tmp_bams = <<>>
    /\ out_bam = None
    /\ merge_pos = <<0, 0>>

\* Ok(set), or "exit" for process::exit(1)
load_barcodes_noexit(lines) == [status |-> "ok", set |-> lines]

load_barcodes(lines) ==
    IF Cardinality(lines) = 0
    THEN [status |-> "exit", set |-> {}]
    ELSE [status |-> "ok", set |-> lines]

LoadBarcodes ==
    /\ pc = "load_barcodes"
    /\ LET r == load_barcodes(barcode_lines)
       IN  /\ pc' = IF r.status = "exit" THEN "exit1" ELSE "tempdir"
           /\ cell_barcodes' = r.set
    /\ UNCHANGED <<bam_file, barcode_lines, to_replace, replacement, cores, tmp_dir,
                   virtual_offsets, wstate, tmp_bams, out_bam, merge_pos>>

TempDir ==
    /\ pc = "tempdir"
    /\ tmp_dir' = TRUE
    /\ pc' = "plan"
    /\ UNCHANGED <<bam_file, barcode_lines, to_replace, replacement, cores,
                   cell_barcodes, virtual_offsets, wstate, tmp_bams, out_bam, merge_pos>>

\* lines 232-253: the planner, then one SliceArgs per boundary and the pool
Plan ==
    /\ pc = "plan"
    /\ LET r == bgzf_noffsets(bam_file, cores)
       IN  /\ virtual_offsets' = r
           /\ pc' = IF r.status = "panic" THEN "panicked" ELSE "workers"
           /\ wstate' = [i \in 0..(Len(r.offsets) - 1) |-> "queued"]
           /\ tmp_bams' = [i \in 0..(Len(r.offsets) - 1) |-> None]
    /\ UNCHANGED <<bam_file, barcode_lines, to_replace, replacement, cores,
                   cell_barcodes, tmp_dir, out_bam, merge_pos>>

Chunks == DOMAIN wstate
Running == {i \in Chunks : wstate[i] = "running"}

\* a pool thread takes the chunk: opens the reader and creates <i>.bam
WorkerStart(i) ==
    /\ pc = "workers"
    /\ wstate[i] = "queued"
    /\ Cardinality(Running) < cores
    /\ wstate' = [wstate EXCEPT ![i] = "running"]
    /\ tmp_bams' = [tmp_bams EXCEPT ![i] = Some(<<>>)]
    /\ UNCHANGED <<bam_file, barcode_lines, to_replace, replacement, cores, pc,
                   cell_barcodes, tmp_dir, virtual_offsets, out_bam, merge_pos>>

\* read_bam_slice runs to its end on this chunk
WorkerFinish(i) ==
    /\ pc = "workers"
    /\ wstate[i] = "running"
    /\ LET r == read_bam_slice(bam_file, SliceArgs(i))
       IN  /\ wstate' = [wstate EXCEPT ![i] =
                           IF r.status = "panic" THEN "panicked" ELSE r.status]
           /\ tmp_bams' = [tmp_bams EXCEPT ![i] = Some(r.out)]
    /\ UNCHANGED <<bam_file, barcode_lines, to_replace, replacement, cores, pc,
                   cell_barcodes, tmp_dir, virtual_offsets, out_bam, merge_pos>>

\* a read of the source fails (r? returns Err) or a write to <i>.bam fails
\* (expect panics) after n records were written
WorkerFail(i) ==
    /\ pc = "workers"
    /\ wstate[i] = "running"
    /\ LET r == read_bam_slice(bam_file, SliceArgs(i))
       IN  \E how \in {"err", "panicked"}, n \in 0..Len(r.out) :
             /\ wstate' = [wstate EXCEPT ![i] = how]
             /\ tmp_bams' = [tmp_bams EXCEPT ![i] = Some(SubSeq(r.out, 1, n))]
    /\ UNCHANGED <<bam_file, barcode_lines, to_replace, replacement, cores, pc,
                   cell_barcodes, tmp_dir, virtual_offsets, out_bam, merge_pos>>

\* after a panic in the pool a chunk not yet taken may never be run
WorkerSkip(i) ==
    /\ pc = "workers"
    /\ wstate[i] = "queued"
    /\ \E j \in Chunks : wstate[j] = "panicked"
    /\ wstate' = [wstate EXCEPT ![i] = "skipped"]
    /\ UNCHANGED <<bam_file, barcode_lines, to_replace, replacement, cores, pc,
                   cell_barcodes, tmp_dir, virtual_offsets, tmp_bams, out_bam, merge_pos>>

\* pool.install returns (or resumes a worker's panic); line 262 unwraps
\* every result
collect_ignore_err(ws) ==
    IF \E i \in DOMAIN ws : ws[i] \in {"panicked", "skipped"} THEN "panicked" ELSE "merge"

collect(ws) ==
    IF \E i \in DOMAIN ws : ws[i] \in {"panicked", "skipped"} THEN "panicked"
    ELSE IF \E i \in DOMAIN ws : ws[i] = "err" THEN "panicked"
    ELSE "merge"

Collect ==
    /\ pc = "workers"
    /\ \A i \in Chunks : wstate[i] \in {"ok", "err", "panicked", "skipped"}
    /\ pc' = collect(wstate)
    /\ UNCHANGED <<bam_file, barcode_lines, to_replace, replacement, cores,
                   cell_barcodes, tmp_dir, virtual_offsets, wstate, tmp_bams, out_bam,
                   merge_pos>>

\* merge_bams: the header of tmp_bams[0], then the destination writer
MergeOpen ==
    /\ pc = "merge"
    /\ out_bam' = Some(<<>>)
    /\ merge_pos' = <<0, 0>>
    /\ pc' = "merging"
    /\ UNCHANGED <<bam_file, barcode_lines, to_replace, replacement, cores,
                   cell_barcodes, tmp_dir, virtual_offsets, wstate, tmp_bams>>

\* the chunk file that follows chunk file b in tmp_bams
next_chunk_skipping(b) == b + 2

next_chunk(b) == b + 1

\* one turn of the inner loop, or the end of a chunk file
MergeStep ==
    /\ pc = "merging"
    /\ merge_pos[1] \in Chunks
    /\ LET b == merge_pos[1]
           k == merge_pos[2]
           recs == unwrap(tmp_bams[b])
       IN  IF k < Len(recs)
           THEN /\ out_bam' = Some(Append(unwrap(out_bam), recs[k + 1]))
                /\ merge_pos' = <<b, k + 1>>
           ELSE /\ out_bam' = out_bam
                /\ merge_pos' = <<next_chunk(b), 0>>
    /\ UNCHANGED <<bam_file, barcode_lines, to_replace, replacement, cores, pc,
                   cell_barcodes, tmp_dir, virtual_offsets, wstate, tmp_bams>>

\* a read of a chunk file or a write to the destination fails: unwrap panics
MergeFail ==
    /\ pc = "merging"
    /\ merge_pos[1] \in Chunks
    /\ pc' = "panicked"
    /\ UNCHANGED <<bam_file, barcode_lines, to_replace, replacement, cores,
                   cell_barcodes, tmp_dir, virtual_offsets, wstate, tmp_bams, out_bam,
                   merge_pos>>

\* Ok(PathBuf::from(out_bam_file))
MergeDone ==
    /\ pc = "merging"
    /\ merge_pos[1] \notin Chunks
    /\ pc' = "done"
    /\ UNCHANGED <<bam_file, barcode_lines, to_replace, replacement, cores,
                   cell_barcodes, tmp_dir, virtual_offsets, wstate, tmp_bams, out_bam,
                   merge_pos>>

\* the ctrlc handler: std::process::exit(2)
Interrupt ==
    /\ pc \notin Terminal
    /\ pc' = "exit2"
    /\ UNCHANGED <<bam_file, barcode_lines, to_replace, replacement, cores,
                   cell_barcodes, tmp_dir, virtual_offsets, wstate, tmp_bams, out_bam,
                   merge_pos>>

Next ==
    \/ LoadBarcodes
    \/ TempDir
    \/ Plan
    \/ \E i \in Chunks : WorkerStart(i)
    \/ \E i \in Chunks : WorkerFinish(i)
    \/ \E i \in Chunks : WorkerFail(i)
    \/ \E i \in Chunks : WorkerSkip(i)
    \/ Collect
    \/ MergeOpen
    \/ MergeStep
    \/ MergeFail
    \/ MergeDone
    \/ Interrupt

Spec == Init /\ [][Next]_vars

(***************************************************************************)
(* The planner called on its own: bgzf_noffsets is a public function.      *)
(***************************************************************************)
PlanInit ==
    /\ bam_file \in PlanFiles
    /\ cores \in 0..MaxPlanChunks
    /\ barcode_lines = {sAAAA}
    /\ to_replace = None
    /\ replacement = None
    /\ pc = "plan"
    /\ cell_barcodes = {sAAAA}
    /\ tmp_dir = TRUE
    /\ virtual_offsets = Unplanned
    /\ wstate = <<>>
    /\ tmp_bams = <<>>
    /\ out_bam = None
    /\ merge_pos = <<0, 0>>

PlanNext == Plan

SpecPlan == PlanInit /\ [][PlanNext]_vars

(***************************************************************************)
(* What the claims speak of.                                               *)
(***************************************************************************)
Planned == virtual_offsets # Unplanned
Boundaries == virtual_offsets.offsets

\* the adjusted offsets the planner found for this file and parallelism
FoundOffsets ==
    LET io == initial_offsets_of(bam_file.size, cores)
    IN  adjusted_offsets_of(bam_file, io, num_bytes_of(io))

\* the tag value of a record after the configured substitution, if any
SubstitutedTag(rec) ==
    LET tag == get_record_tag(rec)
    IN  IF is_some(tag) /\ is_some(to_replace) /\ is_some(replacement)
        THEN Some(str_replace(unwrap(tag), unwrap(to_replace), unwrap(replacement)))
        ELSE tag

Ids(recs) == {recs[k].id : k \in 1..Len(recs)}

RECURSIVE ChunkConcat(_)
ChunkConcat(n) == IF n = 0 THEN <<>> ELSE ChunkConcat(n - 1) \o unwrap(tmp_bams[n - 1])

\* the run with parallelism 1 on the same inputs: one unbounded chunk
SequentialRun ==
    read_bam_slice(bam_file, [cell_barcodes |-> barcode_lines, i |-> 0,
                              virtual_start |-> None, virtual_stop |-> None,
                              to_replace |-> to_replace, replacement |-> replacement])

\* the destination holds some but not all of the records to be merged
PartialOutput ==
    /\ is_some(out_bam)
    /\ Len(unwrap(out_bam)) < Len(ChunkConcat(Cardinality(Chunks)))

RunFailed == pc \in {"panicked", "exit1", "exit2"}

(***************************************************************************)
(* Claims about the planner, checked under SpecPlan.                       *)
(***************************************************************************)

\* C3: every boundary sequence the planner returns is a partition of the
\* file: the first boundary has no start, the last has no stop, each stop
\* is the next boundary's start, and the starts are strictly increasing.
C3_BoundariesPartition ==
    (Planned /\ virtual_offsets.status = "ok") =>
        LET b == Boundaries
        IN  /\ Len(b) >= 1
            /\ b[1][1] = None
            /\ b[Len(b)][2] = None
            /\ \A k \in 1..(Len(b) - 1) : is_some(b[k][2]) /\ b[k][2] = b[k + 1][1]
            /\ \A k \in 2..Len(b) : is_some(b[k][1])
            /\ \A k \in 2..(Len(b) - 1) : VLess(unwrap(b[k][1]), unwrap(b[k + 1][1]))

\* C3 witness: the planner returned three or more boundaries.
C3_Witness ==
    Planned /\ virtual_offsets.status = "ok" /\ Len(Boundaries) >= 3

\* C7: for num_chunks >= 2 the planner returns without failing whatever
\* candidates are dropped, and with fewer than two adjusted offsets left
\* (zero or one) it returns exactly one (None, None) boundary.
C7_PlannerNeverFails ==
    (Planned /\ cores >= 2) =>
        /\ virtual_offsets.status = "ok"
        /\ (Len(FoundOffsets) < 2 => Boundaries = <<<<None, None>>>>)

\* C8: with num_chunks = N >= 3 and all N-1 candidates resolved to
\* o_1 < ... < o_{N-1}, the planner returns the N boundaries
\* (None, o_1<<16), (o_1<<16, o_2<<16), ..., (o_{N-1}<<16, None).
C8_AllOffsetsUsed ==
    (Planned /\ cores >= 3 /\ Len(FoundOffsets) = cores - 1) =>
        LET o == FoundOffsets
        IN  /\ virtual_offsets.status = "ok"
            /\ Boundaries =
                 [k \in 1..cores |->
                    <<IF k = 1 THEN None ELSE Some(Shift16(o[k - 1])),
                      IF k = cores THEN None ELSE Some(Shift16(o[k]))>>]

(***************************************************************************)
(* Claims about the run, checked under Spec.                               *)
(***************************************************************************)

\* C1: a worker writes a record to its output if and only if the record's
\* tag value after the configured substitution (the original value when
\* none is configured) is a member of the BarcodeSet.
C1_RetainIffSubstitutedTagInSet ==
    \A i \in Chunks :
        wstate[i] = "ok" =>
            LET it == iter_chunk(bam_file, SliceArgs(i).virtual_start,
                                 SliceArgs(i).virtual_stop)
            IN  \A k \in 1..Len(it.recs) :
                    LET rec == it.recs[k].rec
                        tag == SubstitutedTag(rec)
                    IN  (rec.id \in Ids(unwrap(tmp_bams[i])))
                          <=> (is_some(tag) /\ unwrap(tag) \in cell_barcodes)

\* C2: for parallelism N >= 1 the run returns whenever the run with
\* parallelism 1 does, and retains the same sequence of records: the
\* planner does not fail, no worker fails on its chunk, and the final
\* output is the output of the run with parallelism 1.
C2_ParallelismInvariance ==
    (cores >= 1 /\ Planned /\ SequentialRun.status = "ok") =>
        /\ virtual_offsets.status = "ok"
        /\ \A i \in Chunks : read_bam_slice(bam_file, SliceArgs(i)).status = "ok"
        /\ (pc = "done" => out_bam = Some(SequentialRun.out))

\* C4: whenever the run ends without returning the destination path, the
\* destination does not hold a partially merged output file.
C4_NoPartialOutputOnFailure ==
    RunFailed => ~PartialOutput

\* C5: the final output is the concatenation of the chunk outputs in
\* ascending chunk index, each in its own order, whatever the order in
\* which the workers finished; the retained records are in source order.
C5_MergeInChunkOrder ==
    /\ (pc = "merging" =>
          /\ is_some(out_bam)
          /\ Len(unwrap(out_bam)) <= Len(ChunkConcat(Cardinality(Chunks)))
          /\ unwrap(out_bam) =
               SubSeq(ChunkConcat(Cardinality(Chunks)), 1, Len(unwrap(out_bam))))
    /\ (pc = "done" =>
          /\ out_bam = Some(ChunkConcat(Cardinality(Chunks)))
          /\ \A k \in 1..(Len(unwrap(out_bam)) - 1) :
                unwrap(out_bam)[k].id < unwrap(out_bam)[k + 1].id)

\* C5 witness: a finished run whose output holds records of two chunks.
C5_Witness ==
    /\ pc = "done"
    /\ \E i, j \in Chunks : i < j /\ unwrap(tmp_bams[i]) # <<>> /\ unwrap(tmp_bams[j]) # <<>>
    /\ Len(unwrap(out_bam)) >= 3

\* C6: with an empty BarcodeSet the run fails before the scratch area is
\* created, before the planner reads the source and before any worker or
\* the merger starts; nothing is written to the destination.
C6_EmptyAllowListFailsFirst ==
    barcode_lines = {} =>
        /\ pc \in {"load_barcodes", "exit1", "exit2"}
        /\ tmp_dir = FALSE
        /\ ~Planned
        /\ wstate = <<>>
        /\ tmp_bams = <<>>
        /\ out_bam = None

\* C6 witness: the run ended on the empty allow-list.
C6_Witness ==
    barcode_lines = {} /\ pc = "exit1"

\* C9: the merger starts only after every worker has completed
\* successfully; when a worker has failed nothing is merged and the run
\* does not return.
C9_MergeAfterAllWorkersOk ==
    /\ (pc \in {"merge", "merging", "done"} \/ is_some(out_bam)) =>
          \A i \in Chunks : wstate[i] = "ok"
    /\ (\E i \in Chunks : wstate[i] \in {"err", "panicked"}) =>
          (pc \in {"workers", "panicked", "exit2"} /\ out_bam = None)

\* C9 witness: a run that ended on a failed worker while another worker
\* had completed.
C9_Witness ==
    /\ pc = "panicked"
    /\ \E i, j \in Chunks : wstate[i] = "err" /\ wstate[j] = "ok"
    /\ out_bam = None

\* C10: a run configured with parallelism 0 plans as with parallelism 1,
\* a single (None, None) boundary, and does not fail in the planner.
C10_ZeroParallelismClamped ==
    (cores = 0 /\ Planned) => virtual_offsets = Ok(<<<<None, None>>>>)

====
